---- MODULE Spec2Model ----
(***************************************************************************)
(* Model of app.py (Radiomics ROI Analyzer): the scan of the uploaded      *)
(* DICOM files, the CT / RTSTRUCT series matching, load_ct_series,         *)
(* contour_to_mask and the "Run Analysis" loop that fills the result       *)
(* table.                                                                  *)
(*                                                                         *)
(* Conventions.  Python lists are sequences, so every index is 1-based     *)
(* (slice_idx = 1 is numpy index 0).  A boolean mask is the set of its     *)
(* True voxels <<row, col, slice>>, rows and columns counted from 0 as in  *)
(* numpy.  Python's None is <<>> where the value is a number (<<n>>        *)
(* otherwise) and the string NoneStr where the value is a string.          *)
(* Positions, spacings and pixel values are integers (millimetres, raw     *)
(* stored values).                                                         *)
(***************************************************************************)
EXTENDS Integers, Sequences, FiniteSets, TLC

\* ------------------------------------------------------------------ bounds
\* At most MaxFiles files are extracted from the uploaded archives.
MaxFiles == 4
\* Every CT slice of the data set is GridSize x GridSize pixels.
GridSize == 3

\* ------------------------------------------------------- the uploaded data
NoneStr == "None"

Pixels == (0 .. GridSize - 1) \X (0 .. GridSize - 1)

\* Raw stored pixel values of a slice: a diagonal ramp that starts at base.
Ramp(base) == [p \in Pixels |-> base + p[1] + p[2]]

\* A CT slice as pydicom reads it.  pixok = FALSE: the metadata parses but
\* decoding pixel_array raises.  hasRescale = FALSE: RescaleSlope and
\* RescaleIntercept are absent from the file.
CT(uid, pid, ipp, hasRescale, slope, intercept, pixok, base) ==
    [ readable |-> TRUE, Modality |-> "CT", SeriesInstanceUID |-> uid,
      PatientID |-> pid, ImagePositionPatient |-> ipp,
      PixelSpacing |-> <<2, 2>>, hasRescale |-> hasRescale,
      RescaleSlope |-> slope, RescaleIntercept |-> intercept,
      pixok |-> pixok, pixel_array |-> Ramp(base) ]

\* A structure set.  chain is the reference chain flattened to the list of
\* SeriesInstanceUID values it reaches: <<>> when a sequence of the chain is
\* absent or empty.
RT(chain, rois, roiContours) ==
    [ readable |-> TRUE, Modality |-> "RTSTRUCT", chain |-> chain,
      StructureSetROISequence |-> rois, ROIContourSequence |-> roiContours ]

ROI(name, number) == [ROIName |-> name, ROINumber |-> number]
RC(number, contours) == [ReferencedROINumber |-> number, ContourSequence |-> contours]
Contour(data) == [ContourData |-> data]

\* Closed loops, flat x, y, z triples in millimetres.
SquareAt(z) == Contour(<<0, 0, z,  4, 0, z,  4, 4, z,  0, 4, z>>)
InnerAt(z) == Contour(<<2, 2, z,  4, 2, z,  4, 4, z,  2, 4, z>>)
TriangleAt(z) == Contour(<<0, 0, z,  6, 0, z,  0, 6, z>>)
OutsideAt(z) == Contour(<<20, 20, z,  24, 20, z,  24, 24, z,  20, 24, z>>)
Truncated == Contour(<<0, 0, 0,  4>>)

FileSys ==
    [ f \in {"a1", "a2", "a3", "b1", "c1", "e1",
             "rtA", "rtB", "rtC", "rtBad", "rtE", "junk"} |->
      CASE f = "a1" -> CT("A", "P1", <<0, 0, 0>>, TRUE, 2, -3, TRUE, 0)
        [] f = "a2" -> CT("A", "P1", <<0, 0, 10>>, TRUE, 1, 0, TRUE, 20)
        [] f = "a3" -> CT("A", NoneStr, <<2, 0, 10>>, FALSE, 1, 0, TRUE, 40)
        [] f = "b1" -> CT("B", "P1", <<0, 0, 5>>, FALSE, 1, 0, TRUE, 60)
        [] f = "c1" -> CT("C", "P2", <<0, 0, 0>>, FALSE, 1, 0, FALSE, 0)
        [] f = "e1" -> CT("", "P3", <<0, 0, 0>>, FALSE, 1, 0, TRUE, 0)
        [] f = "rtA" -> RT(<<"A">>,
                           <<ROI("PTV", 1), ROI("GTV", 2)>>,
                           <<RC(1, <<SquareAt(1), InnerAt(1), TriangleAt(5),
                                     SquareAt(50)>>),
                             RC(2, <<>>)>>)
        [] f = "rtB" -> RT(<<"B">>,
                           <<ROI("PTV", 1), ROI("GTV", 2), ROI("LUNG", 3)>>,
                           <<RC(1, <<SquareAt(100)>>),
                             RC(2, <<OutsideAt(5)>>),
                             RC(3, <<SquareAt(5), Truncated>>)>>)
        [] f = "rtC" -> RT(<<"C">>, <<ROI("PTV", 1)>>, <<>>)
        [] f = "rtBad" -> RT(<<>>, <<ROI("PTV", 1)>>, <<>>)
        [] f = "rtE" -> RT(<<"">>, <<ROI("PTV", 1)>>, <<>>)
        [] OTHER -> [readable |-> FALSE] ]

Catalogue == DOMAIN FileSys

\* sorted() of the region names that occur in the data.
NameOrder == <<"GTV", "LUNG", "PTV">>

VARIABLES
    files,          \* the files found under temp_dir
    scanned,        \* the files the scan loop has visited
    ct_map,         \* series uid -> list of CT files
    rt_map,         \* referenced series uid -> RTSTRUCT file
    series_ids,     \* set(ct_map) & set(rt_map)
    all_roi_names,  \* sorted union of the region names of the matched series
    selected_rois,  \* the multiselect's value
    messages,       \* what st.info / st.success / st.error have shown
    pc,             \* position of the script
    todo,           \* series the analysis loop has not visited yet
    uid,            \* series of the current iteration
    rt,             \* its structure set (a file)
    slices,         \* load_ct_series: the slices in z order (files)
    volume,         \* load_ct_series: slice index -> pixel -> value
    z_positions,
    spacing,
    origin,
    patient_id,
    roi_i,          \* index of the current region in selected_rois
    contours,       \* contour_to_mask: the loops still to rasterize
    slice_idx,      \* contour_to_mask: slice assigned to the last loop
    mask,           \* contour_to_mask: the True voxels
    results,        \* the list of result rows
    df,             \* the displayed table, <<>> until it is built
    loaded          \* the series load_ct_series has been called for

vars == <<files, scanned, ct_map, rt_map, series_ids, all_roi_names,
          selected_rois, messages, pc, todo, uid, rt, slices, volume,
          z_positions, spacing, origin, patient_id, roi_i, contours,
          slice_idx, mask, results, df, loaded>>

scanVars == <<ct_map, rt_map>>
matchVars == <<series_ids, all_roi_names>>
seriesVars == <<uid, rt, slices, volume, z_positions, spacing, origin, patient_id>>
maskVars == <<contours, slice_idx, mask>>

\* ------------------------------------------------------------- helpers
Range(s) == {s[i] : i \in DOMAIN s}

Abs(x) == IF x < 0 THEN -x ELSE x

\* What st.info, st.success and st.error put on the page.
Msg(level, text) == [level |-> level, text |-> text]

\* dict assignment d[k] = v
Put(d, k, v) == (k :> v) @@ d

\* Faulty variant: the test `if uid:` left out.
TruthyAlways(u) == TRUE

\* `if uid:` -- None and the empty string are falsy.
Truthy(u) == u # NoneStr /\ u # ""

get_referenced_series_uid(ds) ==
    IF ds.chain = <<>> THEN NoneStr ELSE ds.chain[1]

\* ------------------------------------------------------------- the scan
Init ==
    /\ files \in {S \in SUBSET Catalogue : Cardinality(S) <= MaxFiles}
    /\ scanned = {}
    /\ ct_map = <<>>
    /\ rt_map = <<>>
    /\ series_ids = {}
    /\ all_roi_names = <<>>
    /\ selected_rois = <<>>
    /\ messages = <<Msg("info", "Estrazione ZIP"), Msg("success", "ZIP estratti")>>
    /\ pc = "scan"
    /\ todo = {}
    /\ uid = NoneStr
    /\ rt = NoneStr
    /\ slices = <<>>
    /\ volume = <<>>
    /\ z_positions = <<>>
    /\ spacing = <<>>
    /\ origin = <<>>
    /\ patient_id = NoneStr
    /\ roi_i = 0
    /\ contours = <<>>
    /\ slice_idx = 0
    /\ mask = {}
    /\ results = <<>>
    /\ df = <<>>
    /\ loaded = {}

\* One iteration of the scan loop.  rglob yields the files in directory
\* order, which the program does not control.
ScanFile(f) ==
    /\ pc = "scan"
    /\ f \in files \ scanned
    /\ scanned' = scanned \cup {f}
    /\ LET ds == FileSys[f] IN
       IF ~ds.readable
       THEN UNCHANGED scanVars
       ELSE IF ds.Modality = "CT"
       THEN /\ ct_map' = LET u == ds.SeriesInstanceUID IN
                         IF u \in DOMAIN ct_map
                         THEN [ct_map EXCEPT ![u] = Append(@, f)]
                         ELSE Put(ct_map, u, <<f>>)
            /\ UNCHANGED rt_map
       ELSE IF ds.Modality = "RTSTRUCT"
       THEN /\ rt_map' = LET u == get_referenced_series_uid(ds) IN
                         IF Truthy(u) THEN Put(rt_map, u, f) ELSE rt_map
            /\ UNCHANGED ct_map
       ELSE UNCHANGED scanVars
    /\ UNCHANGED <<files, matchVars, selected_rois, messages, pc, todo,
                   seriesVars, roi_i, maskVars, results, df, loaded>>

get_roi_names(ds) ==
    [i \in DOMAIN ds.StructureSetROISequence |-> ds.StructureSetROISequence[i].ROIName]

\* sorted(list(names))
SortedNames(names) == SelectSeq(NameOrder, LAMBDA n : n \in names)

\* set(ct_map) & set(rt_map)
MatchedSeries(cts, rts) == DOMAIN cts \cap DOMAIN rts

\* Faulty variant: the fatal test never fires.
NoMatchNever(ids) == FALSE

\* len(series_ids) == 0
NoMatch(ids) == ids = {}

\* The end of the scan: the series matching, the fatal check and the
\* collection of the region names offered by the multiselect.
Match ==
    /\ pc = "scan"
    /\ scanned = files
    /\ series_ids' = MatchedSeries(ct_map, rt_map)
    /\ IF NoMatch(series_ids')
       THEN /\ messages' = Append(messages, Msg("error", "Nessun match CT / RTSTRUCT trovato"))
            /\ pc' = "stopped"
            /\ UNCHANGED all_roi_names
       ELSE /\ messages' = Append(messages, Msg("success", "Dataset trovati"))
            /\ all_roi_names' =
                 SortedNames(UNION {Range(get_roi_names(FileSys[rt_map[u]])) :
                                      u \in series_ids'})
            /\ pc' = "select"
    /\ UNCHANGED <<files, scanned, scanVars, selected_rois, todo, seriesVars,
                   roi_i, maskVars, results, df, loaded>>

\* The values the multiselect can return: the options the user kept.
Selections(options) ==
    {SelectSeq(options, LAMBDA n : n \in S) : S \in SUBSET Range(options)}

\* The "Run Analysis" button, pressed with a selection of regions.
RunAnalysis(sel) ==
    /\ pc = "select"
    /\ sel \in Selections(all_roi_names)
    /\ selected_rois' = sel
    /\ results' = <<>>
    /\ todo' = series_ids
    /\ pc' = "series"
    /\ UNCHANGED <<files, scanned, scanVars, matchVars, messages, seriesVars,
                   roi_i, maskVars, df, loaded>>

\* ------------------------------------------------------- load_ct_series
Z(f) == FileSys[f].ImagePositionPatient[3]

\* list.sort is stable: a slice goes after the slices already placed whose
\* key is not greater.
InsertByZ(f, s) ==
    LET k == Cardinality({i \in DOMAIN s : Z(s[i]) <= Z(f)})
    IN SubSeq(s, 1, k) \o <<f>> \o SubSeq(s, k + 1, Len(s))

\* Faulty variant: the slices are left in the order of the file list.
Unsorted(fs) == fs

RECURSIVE SortByZ(_)
SortByZ(fs) ==
    IF fs = <<>> THEN <<>>
    ELSE InsertByZ(fs[Len(fs)], SortByZ(SubSeq(fs, 1, Len(fs) - 1)))

\* np.stack of the pixel arrays raises when one of them cannot be decoded.
LoadRaises(fs) == \E i \in DOMAIN fs : ~FileSys[fs[i]].pixok

SliceGap(zs) == IF Len(zs) > 1 THEN Abs(zs[2] - zs[1]) ELSE 1

load_ct_series(fs) ==
    LET ss == SortByZ(fs)
        zs == [k \in DOMAIN ss |-> Z(ss[k])]
    IN [ volume |-> [k \in DOMAIN ss |-> FileSys[ss[k]].pixel_array],
         slices |-> ss,
         z_positions |-> zs,
         spacing |-> <<FileSys[ss[1]].PixelSpacing[1],
                       FileSys[ss[1]].PixelSpacing[2],
                       SliceGap(zs)>>,
         origin |-> FileSys[ss[1]].ImagePositionPatient ]

\* getattr(slices[0], "PatientID", "Unknown")
PatientOf(ss) ==
    IF FileSys[ss[1]].PatientID = NoneStr THEN "Unknown" ELSE FileSys[ss[1]].PatientID

\* An exception nothing catches: Streamlit shows it and the script ends.
Crash ==
    /\ pc' = "crashed"
    /\ messages' = Append(messages, Msg("exception", "traceback"))

\* The head of one iteration of the series loop.  series_ids is list(set),
\* whose order the program does not control.
LoadSeries(u) ==
    /\ pc = "series"
    /\ u \in todo
    /\ loaded' = loaded \cup {u}
    /\ IF LoadRaises(ct_map[u])
       THEN /\ Crash
            /\ UNCHANGED <<seriesVars, roi_i>>
       ELSE LET r == load_ct_series(ct_map[u]) IN
            /\ uid' = u
            /\ volume' = r.volume
            /\ slices' = r.slices
            /\ z_positions' = r.z_positions
            /\ spacing' = r.spacing
            /\ origin' = r.origin
            /\ rt' = rt_map[u]
            /\ patient_id' = PatientOf(r.slices)
            /\ roi_i' = 1
            /\ pc' = "roi"
            /\ UNCHANGED messages
    /\ UNCHANGED <<files, scanned, scanVars, matchVars, selected_rois, todo,
                   maskVars, results, df>>

\* ------------------------------------------------------ contour_to_mask
get_roi_number(ds, roi_name) ==
    LET hits == {i \in DOMAIN ds.StructureSetROISequence :
                   ds.StructureSetROISequence[i].ROIName = roi_name}
    IN IF hits = {} THEN <<>>
       ELSE <<ds.StructureSetROISequence[
                CHOOSE i \in hits : \A j \in hits : i <= j].ROINumber>>

\* The loop over ROIContourSequence has no break: the last item that
\* references the number stays.  <<>> is None.
FindRoiContours(ds, roi_number) ==
    LET hits == {i \in DOMAIN ds.ROIContourSequence :
                   <<ds.ROIContourSequence[i].ReferencedROINumber>> = roi_number}
    IN IF hits = {} THEN <<>>
       ELSE <<ds.ROIContourSequence[CHOOSE i \in hits : \A j \in hits : i >= j]>>

\* The loops contour_to_mask goes through for a region: none when the
\* region or its contour item is missing.
LoopsOf(ds, roi_name) ==
    LET n == get_roi_number(ds, roi_name) IN
    IF n = <<>> THEN <<>>
    ELSE LET rc == FindRoiContours(ds, n) IN
         IF rc = <<>> THEN <<>> ELSE rc[1].ContourSequence

\* np.array(ContourData).reshape(-1, 3) raises unless the length is a
\* multiple of three, and pts[0, 2] raises on no point at all.
ContourRaises(contour) ==
    Len(contour.ContourData) % 3 # 0 \/ Len(contour.ContourData) = 0

Reshape(cd) ==
    [i \in 1 .. (Len(cd) \div 3) |-> <<cd[3 * i - 2], cd[3 * i - 1], cd[3 * i]>>]

\* Faulty variant: on a tie the last index wins.
RECURSIVE ArgminLastFrom(_, _, _)
ArgminLastFrom(d, i, best) ==
    IF i > Len(d) THEN best
    ELSE ArgminLastFrom(d, i + 1, IF d[i] <= d[best] THEN i ELSE best)

argminLast(d) == ArgminLastFrom(d, 2, 1)

\* np.argmin: the first index that holds the smallest value.
RECURSIVE ArgminFrom(_, _, _)
ArgminFrom(d, i, best) ==
    IF i > Len(d) THEN best
    ELSE ArgminFrom(d, i + 1, IF d[i] < d[best] THEN i ELSE best)

argmin(d) == ArgminFrom(d, 2, 1)

NearestSlice(zs, z) == argmin([k \in DOMAIN zs |-> Abs(zs[k] - z)])

\* skimage.draw.polygon(rows, cols, shape): the pixels of the shape whose
\* centre passes the even-odd crossing test against the loop's edges.
\* rows = rowsN / row_spacing and cols = colsN / col_spacing; the
\* comparisons are cross-multiplied by the (positive) spacings.
polygon(rowsN, colsN, row_spacing, col_spacing, shape) ==
    LET n == Len(rowsN)
        Prev(i) == IF i = 1 THEN n ELSE i - 1
        Crosses(i, r, c) ==
            LET j == Prev(i)
                y == r * row_spacing
                x == c * col_spacing
                dy == rowsN[j] - rowsN[i]
                lhs == (x - colsN[i]) * dy
                rhs == (colsN[j] - colsN[i]) * (y - rowsN[i])
            IN /\ \/ (rowsN[i] <= y /\ y < rowsN[j])
                  \/ (rowsN[j] <= y /\ y < rowsN[i])
               /\ IF dy > 0 THEN lhs < rhs ELSE lhs > rhs
    IN {p \in (0 .. shape[1] - 1) \X (0 .. shape[2] - 1) :
          Cardinality({i \in 1 .. n : Crosses(i, p[1], p[2])}) % 2 = 1}

\* The voxels one loop sets: its filled interior, on the slice idx.
FillOf(contour, idx, volume_shape, sp, org) ==
    LET pts == Reshape(contour.ContourData)
        rowsN == [i \in DOMAIN pts |-> pts[i][2] - org[2]]
        colsN == [i \in DOMAIN pts |-> pts[i][1] - org[1]]
    IN {<<p[1], p[2], idx>> : p \in polygon(rowsN, colsN, sp[1], sp[2], volume_shape)}

\* Faulty variant: a loop toggles the voxels it covers (holes across loops).
SetToggle(m, voxels) == (m \ voxels) \cup (voxels \ m)

\* mask[rr, cc, slice_idx] = True
SetTrue(m, voxels) == m \cup voxels

\* The body of the loop over the contours, for a loop that parses.
AddContour(m, contour, shape, zs, sp, org) ==
    SetTrue(m, FillOf(contour, NearestSlice(zs, Reshape(contour.ContourData)[1][3]),
                      shape, sp, org))

RECURSIVE AddContours(_, _, _, _, _, _)
AddContours(m, loops, shape, zs, sp, org) ==
    IF loops = <<>> THEN m
    ELSE AddContours(AddContour(m, Head(loops), shape, zs, sp, org),
                     Tail(loops), shape, zs, sp, org)

\* The mask contour_to_mask returns when no loop of the region raises.
contour_to_mask(ds, roi_name, shape, zs, sp, org) ==
    AddContours({}, LoopsOf(ds, roi_name), shape, zs, sp, org)

\* volume.shape
ShapeOf(vol) == <<GridSize, GridSize, Len(vol)>>

\* contour_to_mask up to its loop: the mask of zeros and the region lookup.
BeginRoi ==
    /\ pc = "roi"
    /\ roi_i <= Len(selected_rois)
    /\ mask' = {}
    /\ contours' = LoopsOf(FileSys[rt], selected_rois[roi_i])
    /\ pc' = "contour"
    /\ UNCHANGED <<files, scanned, scanVars, matchVars, selected_rois, messages,
                   todo, seriesVars, roi_i, slice_idx, results, df, loaded>>

\* One iteration of the loop over the region's contours.
ContourStep ==
    /\ pc = "contour"
    /\ contours # <<>>
    /\ IF ContourRaises(Head(contours))
       THEN /\ Crash
            /\ UNCHANGED maskVars
       ELSE /\ slice_idx' = NearestSlice(z_positions,
                                          Reshape(Head(contours).ContourData)[1][3])
            /\ mask' = AddContour(mask, Head(contours), ShapeOf(volume),
                                  z_positions, spacing, origin)
            /\ contours' = Tail(contours)
            /\ UNCHANGED <<pc, messages>>
    /\ UNCHANGED <<files, scanned, scanVars, matchVars, selected_rois, todo,
                   seriesVars, roi_i, results, df, loaded>>

\* --------------------------------------------------------- the statistics
RECURSIVE SumOver(_, _)
SumOver(S, f) ==
    IF S = {} THEN 0
    ELSE LET v == CHOOSE v \in S : TRUE IN f[v] + SumOver(S \ {v}, f)

\* volume[mask]: the values at the True voxels.
Select(vol, m) == [v \in m |-> vol[v[3]][<<v[1], v[2]>>]]

\* Faulty variant: the distinct values are counted.
CountDistinct(vals) == Cardinality({vals[v] : v \in DOMAIN vals})

\* len(vals)
Count(vals) == Cardinality(DOMAIN vals)

\* Faulty variant: the patient identifier is stored as the series identifier.
RowKeyedByPatient(pid, u, roi, vals) ==
    [ PatientID |-> pid, SeriesUID |-> pid, ROI |-> roi,
      Mean |-> <<0, 1>>, STD |-> <<0, 1>>, Min |-> 0, Max |-> 0,
      N_voxels |-> Cardinality(DOMAIN vals) ]

\* The row of a region.  Mean is the fraction <<sum, n>>; STD holds the
\* population variance it is the root of, as the fraction
\* <<n * sum of squares - sum^2, n^2>>.
Row(pid, u, roi, vals) ==
    LET n == Count(vals)
        s == SumOver(DOMAIN vals, vals)
        q == SumOver(DOMAIN vals, [v \in DOMAIN vals |-> vals[v] * vals[v]])
    IN [ PatientID |-> pid, SeriesUID |-> u, ROI |-> roi,
         Mean |-> <<s, n>>,
         STD |-> <<n * q - s * s, n * n>>,
         Min |-> CHOOSE a \in Range(vals) : \A b \in Range(vals) : a <= b,
         Max |-> CHOOSE a \in Range(vals) : \A b \in Range(vals) : a >= b,
         N_voxels |-> n ]

\* `if len(vals) == 0: continue`
Skips(vals) == Count(vals) = 0

\* The rest of the region's iteration, once contour_to_mask has returned.
Stats ==
    /\ pc = "contour"
    /\ contours = <<>>
    /\ LET vals == Select(volume, mask) IN
       results' = IF Skips(vals) THEN results
                  ELSE Append(results,
                              Row(patient_id, uid, selected_rois[roi_i], vals))
    /\ roi_i' = roi_i + 1
    /\ pc' = "roi"
    /\ UNCHANGED <<files, scanned, scanVars, matchVars, selected_rois, messages,
                   todo, seriesVars, maskVars, df, loaded>>

\* The end of a series' iteration.
EndSeries ==
    /\ pc = "roi"
    /\ roi_i > Len(selected_rois)
    /\ todo' = todo \ {uid}
    /\ pc' = "series"
    /\ UNCHANGED <<files, scanned, scanVars, matchVars, selected_rois, messages,
                   seriesVars, roi_i, maskVars, results, df, loaded>>

\* After the loop: the table is built and shown per patient.  A DataFrame
\* built from no row has no PatientID column, and df.PatientID raises.
Finish ==
    /\ pc = "series"
    /\ todo = {}
    /\ df' = results
    /\ IF results = <<>>
       THEN Crash
       ELSE /\ pc' = "done"
            /\ UNCHANGED messages
    /\ UNCHANGED <<files, scanned, scanVars, matchVars, selected_rois, todo,
                   seriesVars, roi_i, maskVars, results, loaded>>

Next ==
    \/ \E f \in Catalogue : ScanFile(f)
    \/ Match
    \/ \E sel \in Selections(NameOrder) : RunAnalysis(sel)
    \/ \E u \in series_ids : LoadSeries(u)
    \/ BeginRoi
    \/ ContourStep
    \/ Stats
    \/ EndSeries
    \/ Finish

Spec == Init /\ [][Next]_vars

\* ====================================================== the properties
\* What the uploaded files say, read off the files themselves.
CTFiles == {f \in files : FileSys[f].readable /\ FileSys[f].Modality = "CT"}
RTFiles == {f \in files : FileSys[f].readable /\ FileSys[f].Modality = "RTSTRUCT"}
CTSeries == {FileSys[f].SeriesInstanceUID : f \in CTFiles}
\* A reference chain is well formed when it reaches a non-empty identifier.
RTRefs == {FileSys[f].chain[1] :
             f \in {g \in RTFiles : FileSys[g].chain # <<>> /\ FileSys[g].chain[1] # ""}}

\* A series has been loaded, and the variables of its iteration are set.
Loaded == uid # NoneStr

HasRow(rows, u, roi) ==
    \E i \in DOMAIN rows : rows[i].SeriesUID = u /\ rows[i].ROI = roi

\* The mask of a region of a matched series whose loops all parse.
MaskFor(u, roi) ==
    LET r == load_ct_series(ct_map[u]) IN
    contour_to_mask(FileSys[rt_map[u]], roi, ShapeOf(r.volume),
                    r.z_positions, r.spacing, r.origin)

RegionRaises(u, roi) ==
    \E i \in DOMAIN LoopsOf(FileSys[rt_map[u]], roi) :
        ContourRaises(LoopsOf(FileSys[rt_map[u]], roi)[i])

\* ---------------------------------------------------------------- C1
\* C1 (per-unit isolation): once the run has ended, every selected region
\* of every matched series that itself loads, rasterizes and selects a
\* voxel has its row in the result table, whatever happened to the other
\* series and regions.
C1_PerUnitIsolation ==
    pc \in {"done", "crashed"} =>
        \A u \in series_ids : \A roi \in Range(selected_rois) :
            ( /\ ~LoadRaises(ct_map[u])
              /\ ~RegionRaises(u, roi)
              /\ MaskFor(u, roi) # {} )
            => HasRow(df, u, roi)

\* ---------------------------------------------------------------- C2
\* C2 (series matching): after the scan the series that are processed are
\* exactly the identifiers that are the series of a CT slice and the
\* series a structure set's well-formed chain refers to; every file has
\* been visited, and a finished run has loaded exactly those series.
C2_SeriesMatching ==
    pc # "scan" =>
        /\ scanned = files
        /\ series_ids = CTSeries \cap RTRefs
        /\ loaded \subseteq CTSeries \cap RTRefs
        /\ pc = "done" => loaded = CTSeries \cap RTRefs

\* A finished run over a structure set with a malformed chain and a CT
\* series that no structure set refers to.
C2_Witness ==
    /\ pc = "done"
    /\ "rtBad" \in files
    /\ series_ids # {}
    /\ CTSeries \ series_ids # {}

\* ---------------------------------------------------------------- C3
\* C3 (fatal condition): with no identifier matched the script has shown
\* the error and stopped with no series loaded, no mask rasterized and no
\* row produced; with an identifier matched it has not stopped.
C3_FatalNoMatch ==
    pc # "scan" =>
        IF CTSeries \cap RTRefs = {}
        THEN /\ pc = "stopped"
             /\ messages[Len(messages)].level = "error"
             /\ loaded = {}
             /\ volume = <<>>
             /\ mask = {}
             /\ slice_idx = 0
             /\ results = <<>>
             /\ df = <<>>
        ELSE pc # "stopped"

\* The script stopped on CT slices and a structure set that do not match.
C3_Witness ==
    /\ pc = "stopped"
    /\ CTSeries # {}
    /\ "rtC" \in files

\* ---------------------------------------------------------------- C4
\* C4 (intensity conversion): every element of the loaded volume is
\* raw * slope + intercept, with the slope and intercept of the first slice
\* in z order, 1 and 0 when absent.
C4_Rescaled ==
    Loaded =>
        LET first == FileSys[slices[1]]
            slope == IF first.hasRescale THEN first.RescaleSlope ELSE 1
            intercept == IF first.hasRescale THEN first.RescaleIntercept ELSE 0
        IN \A k \in DOMAIN volume : \A p \in Pixels :
               volume[k][p] = FileSys[slices[k]].pixel_array[p] * slope + intercept

\* ---------------------------------------------------------------- C5
GapOfFirstTwo ==
    spacing[3] = IF Len(z_positions) > 1
                 THEN Abs(z_positions[2] - z_positions[1]) ELSE 1

\* C5, as stated: the z_positions of a loaded series are strictly
\* ascending and the slice gap is the distance of the first two.
C5_StrictlyAscending ==
    Loaded =>
        /\ \A k \in 1 .. Len(z_positions) - 1 : z_positions[k] < z_positions[k + 1]
        /\ GapOfFirstTwo

\* C5, amended: the z_positions of a loaded series are in ascending order,
\* strictly so when no two slices of the series share a position, and the
\* slice gap is the distance of the first two (1 for a single slice).
C5_Ascending ==
    Loaded =>
        /\ Len(z_positions) = Len(ct_map[uid])
        /\ \A k \in 1 .. Len(z_positions) - 1 : z_positions[k] <= z_positions[k + 1]
        /\ (\A i, j \in DOMAIN ct_map[uid] :
                i # j => Z(ct_map[uid][i]) # Z(ct_map[uid][j]))
           => \A k \in 1 .. Len(z_positions) - 1 : z_positions[k] < z_positions[k + 1]
        /\ GapOfFirstTwo

\* A series of three slices, listed out of order, two at one position.
C5_Witness ==
    /\ Loaded
    /\ Len(z_positions) = 3
    /\ z_positions[2] = z_positions[3]
    /\ Z(ct_map[uid][1]) > Z(ct_map[uid][3])

\* ---------------------------------------------------------------- C6
\* C6, as stated: no two result rows share PatientID and ROI.
C6_OnePerPatientRegion ==
    \A i, j \in DOMAIN results :
        i # j => ~(results[i].PatientID = results[j].PatientID
                   /\ results[i].ROI = results[j].ROI)

\* C6, amended: no two result rows share SeriesUID and ROI.
C6_OnePerSeriesRegion ==
    \A i, j \in DOMAIN results :
        i # j => ~(results[i].SeriesUID = results[j].SeriesUID
                   /\ results[i].ROI = results[j].ROI)

\* Two series of one patient each gave a row for the same region.
C6_Witness ==
    \E i, j \in DOMAIN results :
        /\ results[i].SeriesUID # results[j].SeriesUID
        /\ results[i].PatientID = results[j].PatientID
        /\ results[i].ROI = results[j].ROI

\* ---------------------------------------------------------------- C7
\* C7 (missing region): after the iteration of a selected region that the
\* series' structure set does not name, the mask was all False, no row was
\* added for it, no exception was raised and a diagnostic has been shown.
C7_MissingRegion ==
    ( /\ pc = "roi"
      /\ roi_i > 1
      /\ get_roi_number(FileSys[rt], selected_rois[roi_i - 1]) = <<>> )
    => /\ mask = {}
       /\ ~HasRow(results, uid, selected_rois[roi_i - 1])
       /\ \E i \in DOMAIN messages : messages[i].level \notin {"info", "success"}

\* ---------------------------------------------------------------- C8
\* C8 (record iff voxels): every row counts the True voxels of its
\* region's mask, at least one; and a region whose iteration is over has a
\* row exactly when its mask selects a voxel.
C8_RecordIffVoxels ==
    /\ \A i \in DOMAIN results :
          /\ results[i].N_voxels >= 1
          /\ results[i].N_voxels =
                Cardinality(MaskFor(results[i].SeriesUID, results[i].ROI))
    /\ (Loaded /\ pc \in {"roi", "contour"}) =>
          \A i \in 1 .. roi_i - 1 :
              HasRow(results, uid, selected_rois[i])
                  <=> MaskFor(uid, selected_rois[i]) # {}

\* A series went through a region with no loop, one whose loop covers no
\* voxel and one that gave a row.
C8_Witness ==
    /\ pc = "roi"
    /\ uid = "B"
    /\ roi_i = 3
    /\ selected_rois = <<"GTV", "PTV">>
    /\ Len(results) = 1
    /\ results[1].N_voxels > 1

\* ---------------------------------------------------------------- C9
\* C9 (slice assignment): a loop is given the slice whose z_position is
\* nearest to the z of its first point, the lowest index on a tie, whatever
\* the distance, and it changes the mask on no other slice.
C9_SliceAssignment ==
    [][ (pc = "contour" /\ contours # <<>> /\ pc' = "contour") =>
          LET z == Head(contours).ContourData[3]
              d(k) == Abs(z_positions[k] - z)
          IN /\ slice_idx' \in DOMAIN z_positions
             /\ \A k \in DOMAIN z_positions : d(slice_idx') <= d(k)
             /\ \A k \in 1 .. slice_idx' - 1 : d(k) > d(slice_idx')
             /\ {v \in mask' : v[3] # slice_idx'} = {v \in mask : v[3] # slice_idx'} ]_vars

\* The loop at z = 5 has just been rasterized between the slices at 0 and
\* 10, and went to the first.
C9_Witness ==
    /\ pc = "contour"
    /\ z_positions = <<0, 10>>
    /\ selected_rois[roi_i] = "PTV"
    /\ Len(contours) = 1
    /\ slice_idx = 1

\* --------------------------------------------------------------- C10
\* C10 (accumulation): during the loop over a region's contours the mask
\* is the union of the filled interiors of the loops done so far, each on
\* its slice, and a step of the loop removes no voxel.
C10_Union ==
    pc = "contour" =>
        LET all == LoopsOf(FileSys[rt], selected_rois[roi_i])
            done == Len(all) - Len(contours)
        IN mask = UNION {FillOf(all[i],
                                NearestSlice(z_positions, all[i].ContourData[3]),
                                ShapeOf(volume), spacing, origin) : i \in 1 .. done}

C10_Accumulates ==
    /\ []C10_Union
    /\ [][(pc = "contour" /\ pc' = "contour") => mask \subseteq mask']_vars

\* The inner loop has been rasterized on the slice of the outer one, and
\* the voxel it covers is still set.
C10_Witness ==
    /\ pc = "contour"
    /\ uid = "A"
    /\ selected_rois[roi_i] = "PTV"
    /\ Len(contours) = 2
    /\ <<1, 1, slice_idx>> \in mask
====
